---- MODULE Spec2Model ----
(***************************************************************************)
(* A model of zim/plugins/spell.py: the module-level probe of the three    *)
(* spell-check bindings, choose_adapter_cls, SpellPlugin.check_dependencies,*)
(* SpellPageViewExtension and the four adapter classes.                     *)
(***************************************************************************)
EXTENDS Integers, Sequences, FiniteSets, TLC

\* ------------------------------------------------------------------ bounds

\* Longest version string drawn for gtkspellcheck.__version__.
MaxVerLen == 5
\* Largest number of languages Gspell.language_get_available() reports.
MaxLangs == 1
\* Largest number of adapter instances constructed in one run.
MaxAdapters == 2
\* Number of text buffers the pageview switches between.
NumBuffers == 2

\* --------------------------------------------------------------- constants

None == "None"
Module == "module"

GtkspellcheckAdapter == "GtkspellcheckAdapter"
OldGtkspellcheckAdapter == "OldGtkspellcheckAdapter"
GtkspellAdapter == "GtkspellAdapter"
GspellAdapter == "GspellAdapter"
AdapterClasses ==
    {GtkspellcheckAdapter, OldGtkspellcheckAdapter, GtkspellAdapter, GspellAdapter}

\* Characters of a version string: decimal digits, the dot, and a letter.
Digits == {"0", "1", "2", "3", "4", "5", "6", "7", "8", "9"}
VersionChars == {"0", "3", "4", ".", "a"}

\* Outcomes of the statements inside the three try blocks of the probe.
OutcomesA == {"ok", "ValueError", "ImportError"}
OutcomesB == {"ok", "ValueError", "ImportError", "GLibError"}
OutcomesC == {"ok", "ValueError", "ImportError"}

SeqsUpTo(S, n) == UNION {[1..k -> S] : k \in 0..n}

VARIABLES
    env,            \* the host environment the module is loaded in
    pc,             \* position of the module-level code
    gtkspellcheck,  \* module global gtkspellcheck
    Gspell,         \* module global Gspell
    gtkspell,       \* module global gtkspell
    probed,         \* the bindings whose try block was entered
    propagated,     \* an exception escaped a try block of the probe
    chosen,         \* outcome of the last call of choose_adapter_cls
    deps            \* outcome of the last call of check_dependencies

selvars == <<env, pc, gtkspellcheck, Gspell, gtkspell, probed, propagated, chosen, deps>>

VARIABLES
    adapter_cls,    \* SpellPageViewExtension._adapter_cls
    ext_pc,         \* life of the extension: "new", "attached", "torn_down"
    checker,        \* SpellPageViewExtension.checker: 0 (None) or an adapter instance
    active,         \* uistate['active']
    adapters,       \* the adapter instances constructed so far, by instance number
    buffer,         \* the buffer textview.get_buffer() returns
    tags,           \* the tag table of each buffer: the names of its tags
    tag_owner,      \* per buffer, the instance whose native checker added the spell tag (0: none)
    gspell_inline,  \* the widget's GspellTextView inline-spell-checking property
    gspell_menu,    \* the widget's GspellTextView enable-language-menu property
    gspell_buf,     \* per buffer, the instance whose checker set_spell_checker set
    gspell_hist,    \* the last enable/disable calls made on Gspell adapters
    calls,          \* the adapter methods invoked by the last handler, in order
    ncalls,         \* the native checker calls made by the last handler, in order
    dialog,         \* the last handler ran an ErrorDialog
    peak,           \* most adapters live at once during the last handler
    load_failed,    \* the last construction of an adapter raised
    after_init,     \* state of the adapter the last handler built, as its __init__ left it
    at_create,      \* the buffer's tag table when the last handler's __init__ created the native checker
    lastEvent       \* the last handler run, its argument and what it started from

extvars == <<adapter_cls, ext_pc, checker, active, adapters, buffer, tags, tag_owner,
             gspell_inline, gspell_menu, gspell_buf, gspell_hist,
             calls, ncalls, dialog, peak, load_failed, after_init, at_create,
             lastEvent>>

vars == <<selvars, extvars>>

\* ------------------------------------------------------- the binding probe

\* A bare "except:" clause handles every exception.
CaughtImportErrorOnly(exc) == exc = "ImportError"
Caught(exc) == TRUE

\* try: gi.require_version('Gtk','3.0'); import gtkspellcheck
\* except: gtkspellcheck = None
TryGtkspellcheck(e) == IF e.A = "ok" THEN Module ELSE None

\* if not gtkspellcheck: try: ... from gi.repository import Gspell;
\* langs = Gspell.language_get_available(); if not langs: Gspell = None
\* except: Gspell = None
TryGspellIgnoringLangs(e, g) ==
    IF g # None THEN None
    ELSE IF e.B = "ok" THEN Module ELSE None
TryGspell(e, g) ==
    IF g # None THEN None
    ELSE IF e.B = "ok" THEN (IF e.nlangs = 0 THEN None ELSE Module)
    ELSE None

\* if not Gspell: try: ... from gi.repository import GtkSpell as gtkspell
\* except: gtkspell = None
TryGtkspell(e, G) ==
    IF G # None THEN None
    ELSE IF e.C = "ok" THEN Module ELSE None

\* The module globals once the module has been imported in environment e.
Loaded(e) ==
    LET g == TryGtkspellcheck(e)
        G == TryGspell(e, g)
        k == TryGtkspell(e, G)
    IN  [gtkspellcheck |-> g, Gspell |-> G, gtkspell |-> k,
         probed |-> {"gtkspellcheck"}
                    \cup (IF g = None THEN {"Gspell"} ELSE {})
                    \cup (IF G = None THEN {"gtkspell"} ELSE {})]

ImportGtkspellcheck ==
    /\ pc = "try_gtkspellcheck"
    /\ gtkspellcheck' = TryGtkspellcheck(env)
    /\ probed' = probed \cup {"gtkspellcheck"}
    /\ propagated' = (env.A # "ok" /\ ~Caught(env.A))
    /\ pc' = IF propagated' THEN "aborted" ELSE "try_Gspell"
    /\ UNCHANGED <<env, Gspell, gtkspell, chosen, deps, extvars>>

ImportGspell ==
    /\ pc = "try_Gspell"
    /\ Gspell' = TryGspell(env, gtkspellcheck)
    /\ probed' = IF gtkspellcheck = None THEN probed \cup {"Gspell"} ELSE probed
    /\ propagated' = (gtkspellcheck = None /\ env.B # "ok" /\ ~Caught(env.B))
    /\ pc' = IF propagated' THEN "aborted" ELSE "try_gtkspell"
    /\ UNCHANGED <<env, gtkspellcheck, gtkspell, chosen, deps, extvars>>

ImportGtkspell ==
    /\ pc = "try_gtkspell"
    /\ gtkspell' = TryGtkspell(env, Gspell)
    /\ probed' = IF Gspell = None THEN probed \cup {"gtkspell"} ELSE probed
    /\ propagated' = (Gspell = None /\ env.C # "ok" /\ ~Caught(env.C))
    /\ pc' = IF propagated' THEN "aborted" ELSE "loaded"
    /\ UNCHANGED <<env, gtkspellcheck, Gspell, chosen, deps, extvars>>

\* ------------------------------------------------------ choose_adapter_cls

IsDigit(c) == c \in Digits

DigitVal(c) ==
    CASE c = "0" -> 0 [] c = "1" -> 1 [] c = "2" -> 2 [] c = "3" -> 3
      [] c = "4" -> 4 [] c = "5" -> 5 [] c = "6" -> 6 [] c = "7" -> 7
      [] c = "8" -> 8 [] c = "9" -> 9

RECURSIVE FindRuns(_, _, _)
FindRuns(s, i, cur) ==
    LET flush == IF cur = <<>> THEN <<>> ELSE <<cur>>
    IN  IF i > Len(s) THEN flush
        ELSE IF IsDigit(s[i]) THEN FindRuns(s, i + 1, Append(cur, s[i]))
        ELSE flush \o FindRuns(s, i + 1, <<>>)

RECURSIVE SplitAt(_, _, _)
SplitAt(s, i, cur) ==
    IF i > Len(s) THEN <<cur>>
    ELSE IF s[i] = "." THEN <<cur>> \o SplitAt(s, i + 1, <<>>)
    ELSE SplitAt(s, i + 1, Append(cur, s[i]))

\* version.split('.'): the pieces between dots, empty and non-numeric ones too.
split_dots(s) == SplitAt(s, 1, <<>>)
\* re.findall(r'\d+', s): the maximal runs of digits of s, left to right.
re_findall_digits(s) == FindRuns(s, 1, <<>>)

RECURSIVE IntOfDigits(_, _, _)
IntOfDigits(s, i, acc) ==
    IF i > Len(s) THEN acc ELSE IntOfDigits(s, i + 1, 10 * acc + DigitVal(s[i]))

\* int(s) of a string: its decimal value, or -1 for the ValueError int raises
\* on the empty string and on a string holding a non-digit.
int(s) ==
    IF s = <<>> \/ \E i \in 1..Len(s) : ~IsDigit(s[i]) THEN -1
    ELSE IntOfDigits(s, 1, 0)

RECURSIVE TupleCmp(_, _, _)
TupleCmp(a, b, i) ==
    IF i > Len(a) /\ i > Len(b) THEN 0
    ELSE IF i > Len(a) THEN -1
    ELSE IF i > Len(b) THEN 1
    ELSE IF a[i] < b[i] THEN -1
    ELSE IF a[i] > b[i] THEN 1
    ELSE TupleCmp(a, b, i + 1)

\* Python's a >= b on tuples of ints: lexicographic, a proper prefix is smaller.
PyTupleGT(a, b) == TupleCmp(a, b, 1) > 0
PyTupleGE(a, b) == TupleCmp(a, b, 1) >= 0

Threshold == <<4, 0, 3>>

\* tuple(map(int, re.findall(r'\d+', gtkspellcheck.__version__)))
version_tuple(v) ==
    LET runs == re_findall_digits(v)
    IN  [i \in 1..Len(runs) |-> int(runs[i])]

choose_adapter_cls(g, G, v) ==
    IF g # None THEN
        LET version == version_tuple(v)
        IN  IF \E i \in 1..Len(version) : version[i] < 0
            THEN [cls |-> None, warned |-> FALSE, raised |-> TRUE]
            ELSE IF PyTupleGE(version, Threshold)
            THEN [cls |-> GtkspellcheckAdapter, warned |-> FALSE, raised |-> FALSE]
            ELSE [cls |-> OldGtkspellcheckAdapter, warned |-> TRUE, raised |-> FALSE]
    ELSE IF G # None
    THEN [cls |-> GspellAdapter, warned |-> FALSE, raised |-> FALSE]
    ELSE [cls |-> GtkspellAdapter, warned |-> FALSE, raised |-> FALSE]

ChooseAdapterCls ==
    /\ pc = "loaded"
    /\ chosen' = [called |-> TRUE,
                   result |-> choose_adapter_cls(gtkspellcheck, Gspell, env.version)]
    /\ UNCHANGED <<env, pc, gtkspellcheck, Gspell, gtkspell, probed, propagated, deps, extvars>>

\* ------------------------------------------- SpellPlugin.check_dependencies

\* all() where the code says any().
check_dependencies_all(g, G, k) ==
    [ok |-> (g # None /\ G # None /\ k # None),
     flags |-> [gtkspellcheck |-> g # None, Gspell |-> G # None, gtkspell |-> k # None]]

check_dependencies(g, G, k) ==
    [ok |-> (g # None \/ G # None \/ k # None),
     flags |-> [gtkspellcheck |-> g # None, Gspell |-> G # None, gtkspell |-> k # None]]

CheckDependencies ==
    /\ pc = "loaded"
    /\ deps' = [called |-> TRUE,
                 result |-> check_dependencies(gtkspellcheck, Gspell, gtkspell)]
    /\ UNCHANGED <<env, pc, gtkspellcheck, Gspell, gtkspell, probed, propagated, chosen, extvars>>

\* ------------------------------------------------------------ the widget

Buffers == 1..NumBuffers

\* Tag names: the tag a gtkspellcheck SpellChecker adds to a buffer's table,
\* the tag GtkSpell adds, a formatting tag of the host, and None for a tag
\* without a name.
SpellTag == "gtkspellchecker-misspelled"
TagNames == {SpellTag, "gtkspell-misspelled", "bold", None}
HostTags == {"gtkspell-misspelled", "bold", None}

\* A prefix cut short: startswith('gtkspell') also matches GtkSpell's tag.
filter_spell_tags_short_prefix(name) ==
    name # None /\ name \in {SpellTag, "gtkspell-misspelled"}

\* name and name.startswith('gtkspellchecker')
filter_spell_tags(name) == name # None /\ name \in {SpellTag}

\* The state the handlers of the extension read and write, as one record.
World ==
    [checker |-> checker, active |-> active, adapters |-> adapters,
     buffer |-> buffer, tags |-> tags, tag_owner |-> tag_owner,
     gspell_inline |-> gspell_inline, gspell_menu |-> gspell_menu,
     gspell_buf |-> gspell_buf, gspell_hist |-> gspell_hist,
     calls |-> <<>>, ncalls |-> <<>>, dialog |-> FALSE,
     peak |-> Cardinality({i \in 1..Len(adapters) : ~adapters[i].torn}),
     after_init |-> "none", at_create |-> {},
     exc |-> FALSE]

Live(w) == {i \in 1..Len(w.adapters) : ~w.adapters[i].torn}

Max(a, b) == IF a >= b THEN a ELSE b

\* Record that method op of instance i is invoked.
Invoke(w, i, op) ==
    [w EXCEPT !.calls = Append(@, [inst |-> i, op |-> op,
                                   wasTorn |-> w.adapters[i].torn])]

Native(w, name) == [w EXCEPT !.ncalls = Append(@, name)]

\* The last three enable/disable calls on the widget's Gspell adapters.
Remember(h, op) ==
    LET all == Append(h, op)
    IN  IF Len(all) > 3 THEN Tail(all) ELSE all

\* A new instance, before its __init__ has run.
NewInstance(w, cls) ==
    LET w1 == [w EXCEPT !.adapters = Append(@,
                 [cls |-> cls, torn |-> FALSE, enabled |-> FALSE,
                  handle |-> None])]
    IN  [w1 EXCEPT !.peak = Max(@, Cardinality(Live(w1)))]

\* An instance whose __init__ raised is dropped.
Discard(w) == [w EXCEPT !.adapters = SubSeq(@, 1, Len(@) - 1), !.exc = TRUE]

\* Note the tag table the native constructor is about to find.
AtCreate(w) == [w EXCEPT !.at_create = w.tags[w.buffer]]

\* Note whether instance i shows highlighting as its __init__ returns.
AfterInit(w, i) ==
    [w EXCEPT !.after_init =
        IF (IF w.adapters[i].cls = GspellAdapter THEN w.gspell_inline
            ELSE w.adapters[i].enabled)
        THEN "enabled" ELSE "disabled"]

\* --------------------------------------------------- GtkspellcheckAdapter

_check_tag_table(w) == {t \in w.tags[w.buffer] : filter_spell_tags(t)}

_clean_tag_table(w) ==
    [w EXCEPT !.tags[w.buffer] = @ \ _check_tag_table(w),
              !.tag_owner[w.buffer] = IF SpellTag \in _check_tag_table(w) THEN 0 ELSE @]

\* gtkspellcheck.SpellChecker(textview, lang) of the library: the new checker
\* is enabled and has initialised the view's buffer, adding its tag.
SpellChecker(w, i) ==
    Native([w EXCEPT !.adapters[i].handle = "checker",
                     !.adapters[i].enabled = TRUE,
                     !.tag_owner[w.buffer] = i,
                     !.tags[w.buffer] = @ \cup {SpellTag}], "SpellChecker")

\* SpellChecker.buffer_initialize() of the library.
buffer_initialize(w, i) ==
    Native([w EXCEPT !.tag_owner[w.buffer] = i,
                     !.tags[w.buffer] = @ \cup {SpellTag}], "buffer_initialize")

\* self._checker.enable() / self._checker.disable(): AttributeError when
\* self._checker is None.
checker_enable(w, i) ==
    IF w.adapters[i].handle = None THEN [w EXCEPT !.exc = TRUE]
    ELSE Native([w EXCEPT !.adapters[i].enabled = TRUE], "enable")

checker_disable(w, i) ==
    IF w.adapters[i].handle = None THEN [w EXCEPT !.exc = TRUE]
    ELSE Native([w EXCEPT !.adapters[i].enabled = FALSE], "disable")

Gtkspellcheck_init(w, ok) ==
    LET w1 == NewInstance(w, GtkspellcheckAdapter)
        i == Len(w1.adapters)
        w2 == AtCreate(_clean_tag_table(w1))
    IN  IF ok THEN SpellChecker(w2, i) ELSE Discard(w2)

\* An on_buffer_changed that initialises the buffer without looking at its tags.
Gtkspellcheck_on_buffer_changed_always(w, i, a) == buffer_initialize(w, i)

Gtkspellcheck_on_buffer_changed(w, i, a) ==
    IF _check_tag_table(w) = {} THEN buffer_initialize(w, i) ELSE w

Gtkspellcheck_enable(w, i) == checker_enable(w, i)

Gtkspellcheck_disable(w, i) == checker_disable(w, i)

\* A teardown that also drops the reference to the native checker.
Gtkspellcheck_teardown_dropping_checker(w, i) ==
    LET w1 == checker_disable(w, i)
    IN  IF w1.exc THEN w1
        ELSE [_clean_tag_table(w1) EXCEPT !.adapters[i].handle = None]

Gtkspellcheck_teardown(w, i) ==
    LET w1 == checker_disable(w, i)
    IN  IF w1.exc THEN w1 ELSE _clean_tag_table(w1)

\* ------------------------------------------------ OldGtkspellcheckAdapter

OldGtkspellcheck_init(w, ok) ==
    LET w1 == NewInstance(w, OldGtkspellcheckAdapter)
        i == Len(w1.adapters)
        w2 == AtCreate(_clean_tag_table(w1))
    IN  IF ok THEN SpellChecker(w2, i) ELSE Discard(w2)

OldGtkspellcheck_on_buffer_changed(w, i, a) ==
    IF _check_tag_table(w) = {} THEN
        LET w1 == checker_disable(w, i)
            w2 == _clean_tag_table(w1)
            w3 == SpellChecker(w2, i)
        IN  IF w1.exc THEN w1
            ELSE IF a THEN checker_enable(w3, i) ELSE w3
    ELSE w

\* --------------------------------------------------------- GtkspellAdapter

\* gtkspell.Checker(); set_language(lang): a checker attached to no view.
Gtkspell_init(w, ok) ==
    LET w1 == NewInstance(w, GtkspellAdapter)
        i == Len(w1.adapters)
    IN  IF ok THEN Native([w1 EXCEPT !.adapters[i].handle = "checker"], "Checker")
        ELSE Discard(w1)

\* self._checker.attach(self._textview)
Gtkspell_enable(w, i) ==
    IF w.adapters[i].handle = None THEN [w EXCEPT !.exc = TRUE]
    ELSE Native([w EXCEPT !.adapters[i].enabled = TRUE], "attach")

\* self._checker.detach()
Gtkspell_disable(w, i) ==
    IF w.adapters[i].handle = None THEN [w EXCEPT !.exc = TRUE]
    ELSE Native([w EXCEPT !.adapters[i].enabled = FALSE], "detach")

Gtkspell_teardown(w, i) ==
    IF w.adapters[i].handle = None THEN [w EXCEPT !.exc = TRUE]
    ELSE Native([w EXCEPT !.adapters[i].enabled = FALSE], "detach")

\* ----------------------------------------------------------- GspellAdapter

Gspell_on_buffer_changed(w, i, a) ==
    Native([w EXCEPT !.gspell_buf[w.buffer] = i], "set_spell_checker")

Gspell_enable_forgetting_menu(w, i) ==
    IF w.adapters[i].handle = None THEN [w EXCEPT !.exc = TRUE]
    ELSE Native([w EXCEPT !.gspell_inline = TRUE,
                          !.gspell_hist = Remember(@, "enable")],
                "set_inline_spell_checking")

Gspell_enable(w, i) ==
    IF w.adapters[i].handle = None THEN [w EXCEPT !.exc = TRUE]
    ELSE Native(Native([w EXCEPT !.gspell_inline = TRUE, !.gspell_menu = TRUE,
                                 !.gspell_hist = Remember(@, "enable")],
                       "set_inline_spell_checking"), "set_enable_language_menu")

Gspell_disable(w, i) ==
    IF w.adapters[i].handle = None THEN [w EXCEPT !.exc = TRUE]
    ELSE Native(Native([w EXCEPT !.gspell_inline = FALSE, !.gspell_menu = FALSE,
                                 !.gspell_hist = Remember(@, "disable")],
                       "set_inline_spell_checking"), "set_enable_language_menu")

\* An initializer that does not end with self.enable().
Gspell_init_without_enable(w, ok) ==
    LET w1 == NewInstance(w, GspellAdapter)
        i == Len(w1.adapters)
        w2 == Gspell_on_buffer_changed(Invoke(Native(w1, "Checker"), i, "on_buffer_changed"),
                                       i, FALSE)
    IN  IF ok THEN [w2 EXCEPT !.adapters[i].handle = "view"] ELSE Discard(w1)

Gspell_init(w, ok) ==
    LET w1 == NewInstance(w, GspellAdapter)
        i == Len(w1.adapters)
        w2 == Gspell_on_buffer_changed(Invoke(Native(w1, "Checker"), i, "on_buffer_changed"),
                                       i, FALSE)
        w3 == [w2 EXCEPT !.adapters[i].handle = "view"]
    IN  IF ok THEN Gspell_enable(Invoke(w3, i, "enable"), i) ELSE Discard(w1)

Gspell_teardown(w, i) == Gspell_disable(Invoke(w, i, "disable"), i)

\* ------------------------------------------ dispatch on the instance's class

adapter_init(w, cls, ok) ==
    CASE cls = GtkspellcheckAdapter -> Gtkspellcheck_init(w, ok)
      [] cls = OldGtkspellcheckAdapter -> OldGtkspellcheck_init(w, ok)
      [] cls = GtkspellAdapter -> Gtkspell_init(w, ok)
      [] cls = GspellAdapter -> Gspell_init(w, ok)

adapter_enable(w, i) ==
    LET w1 == Invoke(w, i, "enable")
        cls == w.adapters[i].cls
    IN  CASE cls \in {GtkspellcheckAdapter, OldGtkspellcheckAdapter} -> Gtkspellcheck_enable(w1, i)
          [] cls = GtkspellAdapter -> Gtkspell_enable(w1, i)
          [] cls = GspellAdapter -> Gspell_enable(w1, i)

adapter_disable(w, i) ==
    LET w1 == Invoke(w, i, "disable")
        cls == w.adapters[i].cls
    IN  CASE cls \in {GtkspellcheckAdapter, OldGtkspellcheckAdapter} -> Gtkspellcheck_disable(w1, i)
          [] cls = GtkspellAdapter -> Gtkspell_disable(w1, i)
          [] cls = GspellAdapter -> Gspell_disable(w1, i)

adapter_on_buffer_changed(w, i, a) ==
    LET w1 == Invoke(w, i, "on_buffer_changed")
        cls == w.adapters[i].cls
    IN  CASE cls = GtkspellcheckAdapter -> Gtkspellcheck_on_buffer_changed(w1, i, a)
          [] cls = OldGtkspellcheckAdapter -> OldGtkspellcheck_on_buffer_changed(w1, i, a)
          [] cls = GtkspellAdapter -> w1
          [] cls = GspellAdapter -> Gspell_on_buffer_changed(w1, i, a)

adapter_teardown(w, i) ==
    LET w1 == Invoke(w, i, "teardown")
        cls == w.adapters[i].cls
        w2 == CASE cls \in {GtkspellcheckAdapter, OldGtkspellcheckAdapter} -> Gtkspellcheck_teardown(w1, i)
                [] cls = GtkspellAdapter -> Gtkspell_teardown(w1, i)
                [] cls = GspellAdapter -> Gspell_teardown(w1, i)
    IN  [w2 EXCEPT !.adapters[i].torn = TRUE]

\* ------------------------------------------------- SpellPageViewExtension

\* A toggle that flips the stored flag instead of storing the requested value.
toggle_spellcheck_flipping(w, a) ==
    LET w1 == IF w.checker # 0
              THEN (IF a THEN adapter_enable(w, w.checker)
                    ELSE adapter_disable(w, w.checker))
              ELSE w
    IN  IF w1.exc THEN w1 ELSE [w1 EXCEPT !.active = ~w.active]

toggle_spellcheck(w, a) ==
    LET w1 == IF w.checker # 0
              THEN (IF a THEN adapter_enable(w, w.checker)
                    ELSE adapter_disable(w, w.checker))
              ELSE w
    IN  IF w1.exc THEN w1 ELSE [w1 EXCEPT !.active = a]

\* A replacement built before the previous adapter is torn down.
on_properties_changed_build_first(w, cls, ok) ==
    LET w1 == adapter_init(w, cls, ok)
        w2 == IF w.checker # 0 THEN adapter_teardown(w1, w.checker) ELSE w1
    IN  IF w1.exc THEN [w2 EXCEPT !.exc = FALSE, !.dialog = TRUE]
        ELSE LET i == Len(w2.adapters)
                 w3 == [w2 EXCEPT !.checker = i]
             IN  IF w3.active THEN adapter_enable(w3, i) ELSE adapter_disable(w3, i)

on_properties_changed(w, cls, ok) ==
    LET w1 == IF w.checker # 0 THEN adapter_teardown(w, w.checker) ELSE w
        w2 == adapter_init(w1, cls, ok)
    IN  IF w1.exc THEN w1
        ELSE IF w2.exc THEN [w2 EXCEPT !.exc = FALSE, !.dialog = TRUE]
        ELSE LET i == Len(w2.adapters)
                 w3 == [AfterInit(w2, i) EXCEPT !.checker = i]
                 w4 == IF w3.active THEN adapter_enable(w3, i)
                       ELSE adapter_disable(w3, i)
             IN  IF w4.exc THEN [w4 EXCEPT !.exc = FALSE, !.dialog = TRUE] ELSE w4

on_page_changed(w, b) ==
    LET w1 == [w EXCEPT !.buffer = b]
    IN  IF w1.checker # 0 THEN adapter_on_buffer_changed(w1, w1.checker, w1.active)
        ELSE w1

teardown(w) ==
    LET w1 == IF w.checker # 0 THEN adapter_teardown(w, w.checker) ELSE w
    IN  IF w1.exc THEN w1 ELSE [w1 EXCEPT !.checker = 0]

\* __init__: checker = None, toggle_spellcheck(uistate['active']),
\* on_properties_changed(properties).
extension_init(w, cls, ok) ==
    LET w1 == toggle_spellcheck([w EXCEPT !.checker = 0], w.active)
    IN  IF w1.exc THEN w1 ELSE on_properties_changed(w1, cls, ok)

Commit(w) ==
    /\ checker' = w.checker
    /\ active' = w.active
    /\ adapters' = w.adapters
    /\ buffer' = w.buffer
    /\ tags' = w.tags
    /\ tag_owner' = w.tag_owner
    /\ gspell_inline' = w.gspell_inline
    /\ gspell_menu' = w.gspell_menu
    /\ gspell_buf' = w.gspell_buf
    /\ gspell_hist' = w.gspell_hist
    /\ calls' = w.calls
    /\ ncalls' = w.ncalls
    /\ dialog' = w.dialog
    /\ peak' = w.peak
    /\ after_init' = w.after_init
    /\ at_create' = w.at_create

Event(type, arg, ok, w) ==
    \* pre_table: the tag table of the buffer the handler finds in the view
    [type |-> type, arg |-> arg, ok |-> ok,
     pre_checker |-> checker, pre_active |-> active,
     pre_table |-> tags[IF type = "page" THEN arg ELSE buffer],
     pre_enabled |-> {i \in 1..Len(adapters) :
                        IF adapters[i].cls = GspellAdapter THEN gspell_inline
                        ELSE adapters[i].enabled},
     raised |-> w.exc]

\* SpellPageViewExtension(plugin, pageview); the plugin is loaded only when
\* check_dependencies reports it available.
ExtInit ==
    /\ ext_pc = "new"
    /\ pc = "loaded"
    /\ check_dependencies(gtkspellcheck, Gspell, gtkspell).ok
    /\ LET c == choose_adapter_cls(gtkspellcheck, Gspell, env.version)
       IN  /\ ~c.raised
           /\ chosen' = [called |-> TRUE, result |-> c]
           /\ adapter_cls' = c.cls
           /\ \E ok \in BOOLEAN :
                LET w == extension_init(World, c.cls, ok)
                IN  /\ Commit(w)
                    /\ load_failed' = w.dialog
                    /\ lastEvent' = Event("init", FALSE, ok, w)
    /\ ext_pc' = "attached"
    /\ UNCHANGED <<env, pc, gtkspellcheck, Gspell, gtkspell, probed, propagated, deps>>

ToggleSpellcheck ==
    /\ ext_pc \in {"attached", "torn_down"}
    /\ \E a \in BOOLEAN :
         LET w == toggle_spellcheck(World, a)
         IN  Commit(w) /\ lastEvent' = Event("toggle", a, TRUE, w)
    /\ UNCHANGED <<selvars, adapter_cls, ext_pc, load_failed>>

OnPageChanged ==
    /\ ext_pc = "attached"
    /\ \E b \in Buffers :
         LET w == on_page_changed(World, b)
         IN  Commit(w) /\ lastEvent' = Event("page", b, TRUE, w)
    /\ UNCHANGED <<selvars, adapter_cls, ext_pc, load_failed>>

OnPropertiesChanged ==
    /\ ext_pc = "attached"
    /\ \E ok \in BOOLEAN :
         /\ ok => Len(adapters) < MaxAdapters
         /\ LET w == on_properties_changed(World, adapter_cls, ok)
            IN  /\ Commit(w)
                /\ load_failed' = IF w.exc THEN load_failed ELSE w.dialog
                /\ lastEvent' = Event("props", FALSE, ok, w)
    /\ UNCHANGED <<selvars, adapter_cls, ext_pc>>

Teardown ==
    /\ ext_pc \in {"attached", "torn_down"}
    /\ LET w == teardown(World)
       IN  Commit(w) /\ lastEvent' = Event("teardown", FALSE, TRUE, w)
    /\ ext_pc' = "torn_down"
    /\ UNCHANGED <<selvars, adapter_cls, load_failed>>

\* ---------------------------------------------------------- specifications

NoEvent ==
    [type |-> "none", arg |-> FALSE, ok |-> TRUE, pre_checker |-> 0,
     pre_active |-> FALSE, pre_table |-> HostTags, pre_enabled |-> {},
     raised |-> FALSE]

\* The widget before the extension is attached to it. A buffer may carry a
\* spell tag left by an earlier load.
ExtNew ==
    /\ adapter_cls = None
    /\ ext_pc = "new"
    /\ checker = 0
    /\ active \in BOOLEAN
    /\ adapters = <<>>
    /\ buffer = 1
    /\ tags \in [Buffers -> {HostTags, HostTags \cup {SpellTag}}]
    /\ tag_owner = [b \in Buffers |-> 0]
    /\ gspell_inline = FALSE
    /\ gspell_menu = FALSE
    /\ gspell_buf = [b \in Buffers |-> 0]
    /\ gspell_hist = <<>>
    /\ calls = <<>>
    /\ ncalls = <<>>
    /\ dialog = FALSE
    /\ peak = 0
    /\ load_failed = FALSE
    /\ after_init = "none"
    /\ at_create = {}
    /\ lastEvent = NoEvent

\* The extension is not part of the selection specifications.
ExtIdle ==
    /\ adapter_cls = None
    /\ ext_pc = "idle"
    /\ checker = 0
    /\ active = FALSE
    /\ adapters = <<>>
    /\ buffer = 1
    /\ tags = [b \in Buffers |-> HostTags]
    /\ tag_owner = [b \in Buffers |-> 0]
    /\ gspell_inline = FALSE
    /\ gspell_menu = FALSE
    /\ gspell_buf = [b \in Buffers |-> 0]
    /\ gspell_hist = <<>>
    /\ calls = <<>>
    /\ ncalls = <<>>
    /\ dialog = FALSE
    /\ peak = 0
    /\ load_failed = FALSE
    /\ after_init = "none"
    /\ at_create = {}
    /\ lastEvent = NoEvent

NotCalled ==
    [called |-> FALSE,
     result |-> [cls |-> None, warned |-> FALSE, raised |-> FALSE]]

NoDeps ==
    [called |-> FALSE,
     result |-> [ok |-> FALSE,
                 flags |-> [gtkspellcheck |-> FALSE, Gspell |-> FALSE,
                            gtkspell |-> FALSE]]]

V403 == <<"4", ".", "0", ".", "3">>
V34 == <<"3", ".", "4">>
SampleVersions == {V403, V34, <<"4", ".", "0">>}

Envs(versions) ==
    {e \in [A : OutcomesA, B : OutcomesB, nlangs : 0..MaxLangs, C : OutcomesC,
            version : versions \cup {<<>>}] :
        e.version = <<>> <=> e.A # "ok"}

\* The module before its first statement has run.
Unloaded(e) ==
    /\ env = e
    /\ pc = "try_gtkspellcheck"
    /\ gtkspellcheck = None
    /\ Gspell = None
    /\ gtkspell = None
    /\ probed = {}
    /\ propagated = FALSE
    /\ chosen = NotCalled
    /\ deps = NoDeps

\* The module once imported.
Imported(e) ==
    /\ env = e
    /\ pc = "loaded"
    /\ gtkspellcheck = Loaded(e).gtkspellcheck
    /\ Gspell = Loaded(e).Gspell
    /\ gtkspell = Loaded(e).gtkspell
    /\ probed = Loaded(e).probed
    /\ propagated = FALSE
    /\ chosen = NotCalled
    /\ deps = NoDeps

\* Loading the module in any environment, then choosing and reporting.
InitSelect == (\E e \in Envs(SampleVersions) : Unloaded(e)) /\ ExtIdle

NextSelect ==
    \/ ImportGtkspellcheck
    \/ ImportGspell
    \/ ImportGtkspell
    \/ ChooseAdapterCls
    \/ CheckDependencies

SpecSelect == InitSelect /\ [][NextSelect]_vars

\* gtkspellcheck imported, reporting any version string.
VersionEnvs ==
    {e \in Envs(SeqsUpTo(VersionChars, MaxVerLen) \ {<<>>}) :
        e.A = "ok" /\ e.B = "ok" /\ e.C = "ok" /\ e.nlangs = MaxLangs}
    \cup {[A |-> "ok", B |-> "ok", nlangs |-> MaxLangs, C |-> "ok", version |-> <<>>]}

InitVersion == (\E e \in VersionEnvs : Imported(e)) /\ ExtIdle

NextVersion == ChooseAdapterCls \/ CheckDependencies

SpecVersion == InitVersion /\ [][NextVersion]_vars

\* One environment for each adapter class.
LifecycleEnvs ==
    {[A |-> "ok", B |-> "ok", nlangs |-> 1, C |-> "ok", version |-> V403],
     [A |-> "ok", B |-> "ok", nlangs |-> 1, C |-> "ok", version |-> V34],
     [A |-> "ImportError", B |-> "ok", nlangs |-> 1, C |-> "ok", version |-> <<>>],
     [A |-> "ImportError", B |-> "ImportError", nlangs |-> 0, C |-> "ok", version |-> <<>>]}

Init == (\E e \in LifecycleEnvs : Imported(e)) /\ ExtNew

Next ==
    \/ ExtInit
    \/ ToggleSpellcheck
    \/ OnPageChanged
    \/ OnPropertiesChanged
    \/ Teardown

Spec == Init /\ [][Next]_vars

\* ------------------------------------------------- claims on the selection

\* What the environment offers, read off env and not off the module globals.
UsableA == env.A = "ok"
UsableB == env.B = "ok" /\ env.nlangs > 0
UsableC == env.C = "ok"

\* C3: choose_adapter_cls returns the adapter of the first usable binding in
\* the order gtkspellcheck, Gspell, gtkspell, for every combination of
\* importability and of emptiness of Gspell's language list; Gspell is usable
\* only with a non-empty language list, and when neither gtkspellcheck nor
\* Gspell is usable the third candidate, GtkspellAdapter, is returned.
C3_FirstUsableBinding ==
    chosen.called =>
        /\ UsableA =>
             chosen.result.cls \in {GtkspellcheckAdapter, OldGtkspellcheckAdapter}
        /\ (~UsableA /\ UsableB) => chosen.result.cls = GspellAdapter
        /\ (~UsableA /\ ~UsableB) => chosen.result.cls = GtkspellAdapter

C3_Witness ==
    /\ chosen.called
    /\ env.A # "ok" /\ env.B = "ok" /\ env.nlangs = 0
    /\ chosen.result.cls = GtkspellAdapter

\* Component i of a dotted version, 0 where the version has no such component.
Component(t, i) == IF i <= Len(t) THEN t[i] ELSE 0

\* t is version 4.0.3 or a later one, compared as major, minor, patch.
AtLeast403(t) ==
    \/ Component(t, 1) > 4
    \/ /\ Component(t, 1) = 4
       /\ \/ Component(t, 2) > 0
          \/ Component(t, 2) = 0 /\ Component(t, 3) >= 3

\* C4: with gtkspellcheck available, choose_adapter_cls returns the modern
\* adapter exactly for the versions at or above 4.0.3 and the legacy adapter
\* exactly for those below, the version being the numeric runs of the version
\* string; the leak warning is logged exactly when the legacy adapter is
\* returned.
C4_VersionGate ==
    (chosen.called /\ gtkspellcheck # None) =>
        LET t == version_tuple(env.version)
        IN  /\ ~chosen.result.raised
            /\ chosen.result.cls = GtkspellcheckAdapter <=> AtLeast403(t)
            /\ chosen.result.cls = OldGtkspellcheckAdapter <=> ~AtLeast403(t)
            /\ chosen.result.warned <=> chosen.result.cls = OldGtkspellcheckAdapter

C4_Witness ==
    /\ chosen.called
    /\ env.version = <<"4", ".", "0", ".", "3">>
    /\ chosen.result.cls = GtkspellcheckAdapter
    /\ ~chosen.result.warned

\* The version string is not purely digits and dots: it holds another
\* character, or no digit at all.
NotNumeric(v) ==
    \/ \E i \in 1..Len(v) : v[i] \notin Digits \cup {"."}
    \/ \A i \in 1..Len(v) : v[i] \notin Digits

\* C5 as claimed: for every version string that is not purely digits and
\* dots, choose_adapter_cls does not raise and returns the legacy adapter.
C5_NonNumericIsLegacy ==
    (chosen.called /\ gtkspellcheck # None /\ NotNumeric(env.version)) =>
        /\ ~chosen.result.raised
        /\ chosen.result.cls = OldGtkspellcheckAdapter

\* C5 as amended: for every version string that is not purely digits and
\* dots, choose_adapter_cls does not raise; it returns the legacy adapter
\* when the string holds no digit or its numeric runs are below 4.0.3, and
\* the modern adapter when its numeric runs are at or above 4.0.3.
C5_NonNumericByRuns ==
    (chosen.called /\ gtkspellcheck # None /\ NotNumeric(env.version)) =>
        /\ ~chosen.result.raised
        /\ (\A i \in 1..Len(env.version) : env.version[i] \notin Digits)
             => chosen.result.cls = OldGtkspellcheckAdapter
        /\ chosen.result.cls = OldGtkspellcheckAdapter
             <=> ~AtLeast403(version_tuple(env.version))
        /\ chosen.result.cls = GtkspellcheckAdapter
             <=> AtLeast403(version_tuple(env.version))

C5_Witness ==
    /\ chosen.called
    /\ env.version = <<"4", ".", "3", "a">>
    /\ chosen.result.cls = GtkspellcheckAdapter
    /\ ~chosen.result.raised

\* C6: check_dependencies reports the plugin available exactly when a
\* binding was probed successfully; with none of the three importable it
\* reports unavailable with the three flags false; and no exception raised
\* while probing a candidate leaves the probe.
C6_Dependencies ==
    /\ ~propagated
    /\ pc # "aborted"
    /\ deps.called =>
        /\ deps.result.ok <=>
             \/ "gtkspellcheck" \in probed /\ UsableA
             \/ "Gspell" \in probed /\ UsableB
             \/ "gtkspell" \in probed /\ UsableC
        /\ deps.result.flags.gtkspellcheck <=> UsableA
        /\ (env.A # "ok" /\ env.B # "ok" /\ env.C # "ok") =>
             /\ ~deps.result.ok
             /\ ~deps.result.flags.gtkspellcheck
             /\ ~deps.result.flags.Gspell
             /\ ~deps.result.flags.gtkspell

C6_Witness ==
    /\ deps.called
    /\ env.A = "ValueError" /\ env.B = "GLibError" /\ env.C = "ImportError"
    /\ ~deps.result.ok
    /\ probed = {"gtkspellcheck", "Gspell", "gtkspell"}

\* -------------------------------------------------- claims on the extension

\* Instance i shows spell-check highlighting.
Enabled(i) ==
    IF adapters[i].cls = GspellAdapter THEN gspell_inline ELSE adapters[i].enabled

LiveAdapters == {i \in 1..Len(adapters) : ~adapters[i].torn}

\* C1: torn-down is terminal: no enable(), disable(), on_buffer_changed() or
\* second teardown() is invoked on an instance whose teardown() has been
\* called.
C1_TornDownTerminal ==
    \A k \in 1..Len(calls) : ~calls[k].wasTorn

\* C2: when the construction of an adapter fails in on_properties_changed,
\* nothing is raised, an error dialog is shown, the active flag is unchanged,
\* and no adapter is enabled from then until a later construction succeeds.
C2_FailedLoadStaysInactive ==
    /\ (lastEvent.type \in {"init", "props"} /\ ~lastEvent.ok) =>
         /\ ~lastEvent.raised
         /\ dialog
         /\ active = lastEvent.pre_active
    /\ load_failed => \A i \in 1..Len(adapters) : ~Enabled(i)

\* C7: at most one adapter that is constructed and not torn down exists at
\* any time, inside a handler as well as between handlers: the previous
\* adapter is torn down before its replacement is constructed; and at most
\* one adapter is enabled on the widget.
C7_OneLiveAdapter ==
    /\ peak <= 1
    /\ Cardinality(LiveAdapters) <= 1
    /\ Cardinality({i \in 1..Len(adapters) : adapters[i].enabled}) <= 1

C7_Witness ==
    /\ lastEvent.type = "props"
    /\ lastEvent.ok
    /\ lastEvent.pre_checker # 0
    /\ Len(adapters) >= 2
    /\ LiveAdapters = {Len(adapters)}
    /\ peak = 1

\* C8: enable() or disable() on an instance after its teardown() does not
\* raise, whatever the adapter class, and toggle_spellcheck(active) after the
\* teardown() of the extension completes without error, storing the flag.
C8_NoRaiseAfterTeardown ==
    /\ (\E k \in 1..Len(calls) :
          calls[k].wasTorn /\ calls[k].op \in {"enable", "disable"})
         => ~lastEvent.raised
    /\ (lastEvent.type = "toggle" /\ ext_pc = "torn_down") =>
         /\ ~lastEvent.raised
         /\ active = lastEvent.arg

C8_Witness ==
    /\ lastEvent.type = "toggle"
    /\ \E k \in 1..Len(calls) : calls[k].wasTorn /\ calls[k].op = "enable"
    /\ ~lastEvent.raised
    /\ adapter_cls = GtkspellcheckAdapter

\* C9: toggle_spellcheck(active) stores the requested value in the active
\* flag and, when an adapter exists, calls enable() for true and disable()
\* for false on the current adapter, once and nothing else; with no adapter
\* only the flag changes and no adapter or native call is made.
C9_Toggle ==
    lastEvent.type = "toggle" =>
        /\ ~lastEvent.raised
        /\ active = lastEvent.arg
        /\ checker = lastEvent.pre_checker
        /\ lastEvent.pre_checker # 0 =>
             /\ Len(calls) = 1
             /\ calls[1].inst = checker
             /\ calls[1].op = (IF lastEvent.arg THEN "enable" ELSE "disable")
             /\ Enabled(checker) = lastEvent.arg
        /\ lastEvent.pre_checker = 0 =>
             /\ calls = <<>>
             /\ ncalls = <<>>
             /\ {i \in 1..Len(adapters) : Enabled(i)} = lastEvent.pre_enabled

C9_Witness ==
    /\ lastEvent.type = "toggle"
    /\ lastEvent.arg
    /\ ~lastEvent.pre_active
    /\ lastEvent.pre_checker # 0
    /\ ~adapters[checker].torn
    /\ calls = <<[inst |-> checker, op |-> "enable", wasTorn |-> FALSE]>>
    /\ active

\* C10: on the Gspell adapter the two widget properties, inline spell
\* checking and language menu, are equal after any sequence of enable() and
\* disable() calls and true exactly when the last call was enable(); after
\* enable(); disable(); enable() both are true.
C10_GspellProperties ==
    adapter_cls = GspellAdapter =>
        /\ gspell_inline = gspell_menu
        /\ gspell_hist # <<>> =>
             (gspell_inline <=> gspell_hist[Len(gspell_hist)] = "enable")
        /\ gspell_hist = <<>> => ~gspell_inline
        /\ gspell_hist = <<"enable", "disable", "enable">> =>
             (gspell_inline /\ gspell_menu)

C10_Witness ==
    /\ adapter_cls = GspellAdapter
    /\ gspell_hist = <<"enable", "disable", "enable">>
    /\ gspell_inline
    /\ gspell_menu

\* ------------------------------------------------- claims on the adapters

GtkspellcheckClasses == {GtkspellcheckAdapter, OldGtkspellcheckAdapter}

\* How many times the last handler made native call name.
NativeCount(name) == Cardinality({k \in 1..Len(ncalls) : ncalls[k] = name})

\* C11 as claimed: every adapter is disabled as its initializer returns,
\* before the host calls enable(): construction alone never turns the
\* highlighting on.
C11_DisabledAfterInit ==
    after_init # "enabled"

\* C11 as amended: as its initializer returns only GtkspellAdapter is
\* disabled; GspellAdapter, whose initializer ends with enable(), and the
\* two gtkspellcheck adapters, whose native checker starts enabled, are
\* enabled; on_properties_changed then calls enable() or disable() by the
\* active flag, so the new adapter's state equals the flag when it returns.
C11_StateAfterInit ==
    after_init # "none" =>
        /\ after_init = "disabled" <=> adapter_cls = GtkspellAdapter
        /\ after_init = "enabled" <=>
             adapter_cls \in GtkspellcheckClasses \cup {GspellAdapter}
        /\ checker = Len(adapters)
        /\ Enabled(checker) <=> active

C11_Witness ==
    /\ adapter_cls = GspellAdapter
    /\ after_init = "enabled"
    /\ ~active
    /\ checker # 0
    /\ ~Enabled(checker)

\* C12: on the modern adapter on_buffer_changed calls buffer_initialize of
\* the native checker exactly once when the view's buffer has no tag with
\* the binding's prefix in its table, and not at all when it has one.
C12_BufferInitialize ==
    (lastEvent.type = "page" /\ lastEvent.pre_checker # 0
        /\ adapter_cls = GtkspellcheckAdapter) =>
        /\ buffer = lastEvent.arg
        /\ SpellTag \notin lastEvent.pre_table => NativeCount("buffer_initialize") = 1
        /\ SpellTag \in lastEvent.pre_table => NativeCount("buffer_initialize") = 0
        /\ NativeCount("SpellChecker") = 0

C12_Witness ==
    /\ lastEvent.type = "page"
    /\ adapter_cls = GtkspellcheckAdapter
    /\ lastEvent.pre_checker # 0
    /\ ~adapters[checker].torn
    /\ SpellTag \notin lastEvent.pre_table
    /\ ncalls = <<"buffer_initialize">>

\* C13: on the legacy adapter, after on_buffer_changed has discarded and
\* rebuilt the native checker, the new checker is enabled exactly when
\* spell-check was enabled before the rebuild.
C13_ReconstructKeepsState ==
    (lastEvent.type = "page" /\ lastEvent.pre_checker # 0
        /\ adapter_cls = OldGtkspellcheckAdapter
        /\ NativeCount("SpellChecker") > 0) =>
        (Enabled(checker) <=> checker \in lastEvent.pre_enabled)

\* C14: after teardown() of a modern or legacy adapter its native checker is
\* disabled and no buffer still carries a spell tag that the adapter's
\* native checker added, the buffers shown before earlier page changes
\* included.
C14_TeardownReleases ==
    \A k \in 1..Len(calls) :
        (calls[k].op = "teardown" /\ ~calls[k].wasTorn
            /\ adapters[calls[k].inst].cls \in GtkspellcheckClasses) =>
            /\ ~adapters[calls[k].inst].enabled
            /\ \A b \in Buffers : tag_owner[b] # calls[k].inst

\* C15: gtkspell is probed, and its flag can become true, only when
\* gtkspellcheck was found unavailable and Gspell was unavailable or rejected
\* for having no dictionaries; with gtkspellcheck available neither Gspell
\* nor gtkspell is probed.
C15_StrictFallThrough ==
    /\ "gtkspell" \in probed => (~UsableA /\ ~UsableB)
    /\ gtkspell # None => (~UsableA /\ ~UsableB)
    /\ (pc = "loaded" /\ UsableA) => probed = {"gtkspellcheck"}

\* C16: constructing a modern or legacy adapter removes from the table of
\* the view's buffer exactly the tags with the binding's prefix, before the
\* native checker is created, and leaves every other tag of the table as it
\* was.
C16_InitCleansPrefixTags ==
    (lastEvent.type \in {"init", "props"} /\ adapter_cls \in GtkspellcheckClasses) =>
        /\ at_create = lastEvent.pre_table \ {SpellTag}
        /\ HostTags \subseteq at_create
        /\ tags[buffer] \ {SpellTag} = lastEvent.pre_table \ {SpellTag}
        /\ lastEvent.ok => tags[buffer] = at_create \cup {SpellTag}

C16_Witness ==
    /\ lastEvent.type = "init"
    /\ lastEvent.ok
    /\ adapter_cls \in GtkspellcheckClasses
    /\ SpellTag \in lastEvent.pre_table
    /\ at_create = HostTags
    /\ tags[buffer] = HostTags \cup {SpellTag}

\* C17: whenever the extension holds an adapter that is constructed and not
\* torn down, between events, the adapter is enabled exactly when the active
\* flag is set.
C17_StateMatchesFlag ==
    (checker # 0 /\ ~adapters[checker].torn /\ ~lastEvent.raised) =>
        (Enabled(checker) <=> active)

====
